---- MODULE Spec2Model ----
(***************************************************************************)
(* Model of the MASX AI proxy service: the ProxyManager class state        *)
(* (app/proxy_manager.py), the route handlers that call it (app/routes.py) *)
(* and the periodic refresher (app/main.py).                               *)
(*                                                                         *)
(* Thread 0 is the asyncio event loop of the service: it runs one route    *)
(* handler or one scheduler iteration at a time (none of them awaits       *)
(* inside ProxyManager).  Threads 1..NumThreads are callers of the         *)
(* classmethods from other threads (proxies() drives proxies_async with    *)
(* asyncio.run in the calling thread).  ProxyManager takes no lock, so     *)
(* the statements of different threads interleave.                         *)
(*                                                                         *)
(* Time is counted in minutes.  A string is a sequence of characters.      *)
(***************************************************************************)
EXTENDS Integers, Sequences, FiniteSets, TLC

\* ------------------------------------------------------------------ bounds
NumThreads == 1          \* caller threads besides the event loop
MaxTime == 7             \* the last clock reading (minutes)
MaxFetches == 2          \* Fetcher invocations in one behaviour
MaxRateFetches == 12     \* Fetcher invocations within one minute (SpecRate)
MaxCandidates == 25      \* candidates in one call of the tester (SpecTester)
MaxBatch == 5            \* proxies of one batch tested concurrently (SpecPool)

\* ------------------------------------------------------- program constants
ProxyExpiration == 6     \* __proxy_expiration = timedelta(minutes=6)
MaxRefreshPerMinute == 10   \* max_refresh_requests_per_minute
SleepMinutes == 5        \* asyncio.sleep(300)

Loop == 0
Threads == 0..NumThreads
\* The clock readings of a behaviour: process start, the instant the first
\* pool's age equals the expiration window, and a later one.
Time == { 0, ProxyExpiration, MaxTime }

NL == "\n"
\* Response bodies the proxy source can answer with.
Bodies == { <<"a", NL, "b">>, <<"a", NL>> }
\* The outcome of requests.get + raise_for_status at the proxy source.
Responses == { [ok |-> FALSE, text |-> <<>>] } \cup { [ok |-> TRUE, text |-> b] : b \in Bodies }
\* run_time values of POST /start-refresh, in seconds.
RunTimes == { 0, 300 }
\* run_time: int = 7200
DefaultRunTime == 7200

\* ---------------------------------------------------------- pure functions

\* str.split("\n"): the pieces between separators; always at least one piece.
RECURSIVE SplitFrom(_, _, _)
SplitFrom(text, i, cur) ==
    IF i > Len(text) THEN << cur >>
    ELSE IF text[i] = NL THEN << cur >> \o SplitFrom(text, i + 1, <<>>)
    ELSE SplitFrom(text, i + 1, Append(cur, text[i]))

split(text) == SplitFrom(text, 1, <<>>)

\* ProxyManager.__get_proxies: the lines of the body, or [] on a RequestException.
get_proxies(resp) == IF resp.ok THEN split(resp.text) ELSE <<>>

\* What the JSON source of __get_proxies_2 answers: a list of objects.
FallbackResponse ==
    [ok |-> TRUE, json |-> << [ip |-> <<"c">>, port |-> <<"1">>], [port |-> <<"2">>] >>]

\* ProxyManager.__get_proxies_2: "ip:port" of every object with an "ip" key;
\* on a RequestException ip_list is unbound at the return, which raises.
get_proxies_2(resp) ==
    IF resp.ok
    THEN LET withIp == SelectSeq(resp.json, LAMBDA proxy : "ip" \in DOMAIN proxy) IN
         [raised |-> FALSE,
          val |-> [i \in 1..Len(withIp) |-> withIp[i].ip \o <<":">> \o withIp[i].port]]
    ELSE [raised |-> TRUE, val |-> "UnboundLocalError"]

\* datetime.isoformat(): an injective rendering of a time as text.
isoformat(t) == << "iso", t >>
\* datetime.fromisoformat, the inverse used to read a stats() result.
fromisoformat(s) == s[2]

\* What the request of __test_single_proxy through an endpoint meets: the
\* endpoint "a" answers 200, "b" answers 404, every other one times out.
Probe(endpoint) ==
    IF endpoint = <<"a">> THEN [raised |-> FALSE, status_code |-> 200]
    ELSE IF endpoint = <<"b">> THEN [raised |-> FALSE, status_code |-> 404]
    ELSE [raised |-> TRUE, status_code |-> 0]

\* A validator that accepts every response, whatever its status.
test_single_proxy_AnyStatus(probe) == ~probe.raised

\* ProxyManager.__test_single_proxy: True only for a response with status 200.
test_single_proxy(probe) == ~probe.raised /\ probe.status_code = 200

\* The Validator's verdict on an endpoint.
Validates(endpoint) == test_single_proxy(Probe(endpoint))

\* ------------------------------------------------------------ proxy tester
\* A candidate handed to the tester: the endpoint, and whether the call of
\* the validator on it raises instead of returning (as a patched validator
\* of the tests does).
Endpoints == << <<"a">>, <<"b">>, <<"c">> >>
Candidate(i, raising) ==
    [proxy |-> Endpoints[((i - 1) % Len(Endpoints)) + 1], raises |-> i = raising]

\* line 175: batch_size = 20
batch_size == 20
\* settings.batch_size, which __test_proxy does not read.
BatchSizes == {10, batch_size}

\* The result asyncio.gather(return_exceptions=True) holds for one task of
\* CPUExecutors.run_in_thread: the exception object when run_in_executor
\* or the validator raised, else the validator's verdict.
run_in_thread(candidate, executor_ok) ==
    IF ~executor_ok THEN "RuntimeError"
    ELSE IF candidate.raises THEN "Exception"
    ELSE IF Validates(candidate.proxy) THEN "True" ELSE "False"

\* enumerate(...): the positions 1..n in increasing order.
enumerate(n) == [i \in 1..n |-> i]

\* A _test_proxy_batch that appends every proxy whose task returned.
test_proxy_batch_KeepAnswered(proxies, executor_ok) ==
    LET results == [i \in 1..Len(proxies) |-> run_in_thread(proxies[i], executor_ok)]
        valid == SelectSeq(enumerate(Len(proxies)),
                          LAMBDA i : results[i] \in {"True", "False"})
    IN  [i \in 1..Len(valid) |-> proxies[valid[i]].proxy]

\* ProxyManager._test_proxy_batch, lines 190-219: one task per proxy, the
\* results gathered in task order; a result that is an exception is skipped,
\* a true one appends proxies[i].
test_proxy_batch(proxies, executor_ok) ==
    LET results == [i \in 1..Len(proxies) |-> run_in_thread(proxies[i], executor_ok)]
        valid == SelectSeq(enumerate(Len(proxies)),
                          LAMBDA i : results[i] = "True")
    IN  [i \in 1..Len(valid) |-> proxies[valid[i]].proxy]

\* A _test_proxy_sync whose loop ends at the first validator exception.
test_proxy_sync_AbortOnRaise(proxies) ==
    LET valid == SelectSeq(enumerate(Len(proxies)),
                          LAMBDA i : (\A j \in 1..i : ~proxies[j].raises)
                                         /\ Validates(proxies[i].proxy))
    IN  [i \in 1..Len(valid) |-> proxies[valid[i]].proxy]

\* ProxyManager._test_proxy_sync, lines 221-233: the validator called in the
\* caller's thread, an exception of one proxy caught and the loop continued.
test_proxy_sync(proxies) ==
    LET valid == SelectSeq(enumerate(Len(proxies)),
                          LAMBDA i : ~proxies[i].raises /\ Validates(proxies[i].proxy))
    IN  [i \in 1..Len(valid) |-> proxies[valid[i]].proxy]

\* lines 177-178: the slices proxies[i:i + batch_size] for
\* i in range(0, len(proxies), batch_size).
RECURSIVE Batches(_, _, _)
Batches(proxies, i, size) ==
    IF i >= Len(proxies) THEN << >>
    ELSE << SubSeq(proxies, i + 1,
                   IF i + size < Len(proxies) THEN i + size ELSE Len(proxies)) >>
         \o Batches(proxies, i + size, size)

\* valid_proxies.extend(batch_valid) over the batches in order.
RECURSIVE Extend(_, _)
Extend(batches, executor_ok) ==
    IF batches = << >> THEN << >>
    ELSE test_proxy_batch(Head(batches), executor_ok)
         \o Extend(Tail(batches), executor_ok)

\* ProxyManager.__test_proxy, lines 170-188.  _test_proxy_batch catches
\* every Exception itself, so the except branch that calls _test_proxy_sync
\* is not taken for a list of proxies.
test_proxy(proxies, executor_ok) ==
    LET batches == Batches(proxies, 0, batch_size)
    IN  [batches |-> batches, result |-> Extend(batches, executor_ok)]

\* ------------------------------------------------------------------- state
VARIABLES
    _proxies,          \* ProxyManager._proxies
    proxy_timestamp,   \* ProxyManager.__proxy_timestamp
    refresh_count,     \* ProxyManager.__refresh_count
    proxy_expiration,  \* ProxyManager.__proxy_expiration (minutes)
    alias,             \* caller threads holding the list object cls._proxies is bound to
    tester,            \* a call of the proxy tester: its arguments and its result
    cpu_executors,     \* cls.__cpu_executors, its thread pools and their callers
    settings,          \* config.Settings: require_api_key and api_key
    request,           \* the HTTP request the service has received and not answered
    now,               \* datetime.now() / loop.time()
    pc,                \* per thread: the statement it is at
    all_proxies,       \* per thread: the local all_proxies of a cycle
    ret,               \* per thread: the value being built / returned
    proxy_task,        \* main.proxy_task and the state of the refresher task
    validated,         \* history: endpoints the Validator passed for the current pool
    fetches,           \* history: Fetcher invocations so far
    cycles,            \* history: refresh cycles completed after a successful fetch
    at,                \* history, per thread: the state when its call was issued
    cohort             \* history: reads issued together while the pool was stale

vars == << _proxies, proxy_timestamp, refresh_count, proxy_expiration, alias, tester,
           cpu_executors, settings, request, now, pc,
           all_proxies, ret,
           proxy_task, validated, fetches, cycles, at, cohort >>

mgr == << _proxies, proxy_timestamp, refresh_count, proxy_expiration >>

\* ProxyManager._get_next_refresh_time, given the timestamp it reads.
get_next_refresh_time(ts) == isoformat(ts + proxy_expiration)

\* The expiry test of proxies_async, line 73.
Expired(ts, clock) == ts + proxy_expiration < clock

hist == << validated, fetches, cycles, at, cohort >>

NoResponse == [route |-> "none"]
NoRet == [kind |-> "none", http |-> NoResponse]
NoAt == [op |-> "none", pool |-> <<>>, ts |-> 0, found |-> "none", fetch |-> "no",
         sched |-> FALSE, inflight |-> FALSE]
\* CPUExecutors.__init__, concurrency.py lines 14-17: no pool yet (_executor
\* 0 is None).  pools are the ThreadPoolExecutors created so far, each with
\* the tasks of every caller that wait in its queue and that its workers run;
\* tasks and executor are the callers' locals: the validations a caller has
\* still to start and the pool the executor property returned to it.
CPUExecutors ==
    [_executor |-> 0, pools |-> << >>,
     tasks |-> [t \in Threads |-> 0], executor |-> [t \in Threads |-> 0]]
\* config.Settings, lines 44-45: api_key = "", require_api_key = False.
Settings == [require_api_key |-> FALSE, api_key |-> << >>]
\* No request waits for its answer.
NoRequest ==
    [route |-> "none",
     headers |-> [name \in {"X-API-Key", "Authorization"} |->
                     [present |-> FALSE, value |-> << >>]]]
\* No call of the tester has been made.
NoInput == [proxies |-> << >>, executor_ok |-> TRUE, batch_size |-> batch_size]
NoTester == [op |-> "None", input |-> NoInput, batches |-> << >>, result |-> << >>]
NoTask == [state |-> "None", run_time |-> 0, start_time |-> 0, wake |-> 0]

\* The pool is Stale for a read: empty, or populated and expired (lines 72-76).
Stale == _proxies = <<>> \/ Expired(proxy_timestamp, now)

\* Thread t is inside a refresh cycle: it has fetched and not yet stamped.
InCycle(t) == pc[t] \in {"pa83", "pa85", "rp101", "rp103"}

\* The pool and timestamp when a call of read() or of a refresh cycle was issued;
\* found: what the read's own test of lines 72-73 saw; fetch: its Fetcher call;
\* inflight: whether another thread was inside a refresh cycle at that moment.
Snapshot(o, sched) ==
    [op |-> o, pool |-> _proxies, ts |-> proxy_timestamp, found |-> "none",
     fetch |-> "no", sched |-> sched,
     inflight |-> \E u \in Threads : InCycle(u)]
Issued(o) == [NoAt EXCEPT !.op = o]

\* The class attributes as the class statement leaves them, with the
\* expiration window given.
ClassState(window) ==
    /\ _proxies = <<>>
    /\ proxy_timestamp = 0
    /\ refresh_count = 0
    /\ proxy_expiration = window
    /\ alias = {}

\* No call in progress, no scheduler task.
NoCalls ==
    /\ pc = [t \in Threads |-> "idle"]
    /\ all_proxies = [t \in Threads |-> <<>>]
    /\ ret = [t \in Threads |-> NoRet]
    /\ proxy_task = NoTask
    /\ validated = {}
    /\ fetches = 0
    /\ cycles = 0
    /\ at = [t \in Threads |-> NoAt]
    /\ cohort = {}

\* The process before any request.
Started ==
    /\ now = 0 /\ NoCalls /\ tester = NoTester /\ cpu_executors = CPUExecutors
    /\ settings = Settings /\ request = NoRequest

Init == ClassState(ProxyExpiration) /\ Started

\* The same process with the class attribute __proxy_expiration bound to
\* timedelta(0).
InitZeroWindow == ClassState(0) /\ Started

\* ----------------------------------------------------------------- helpers
Goto(t, l) == pc' = [pc EXCEPT ![t] = l]

\* ------------------------------------------------------------------ clock
Tick ==
    /\ \E n \in Time : n > now /\ now' = n
    /\ UNCHANGED << settings, request, tester, cpu_executors, alias, mgr, pc, all_proxies, ret, proxy_task, hist >>

\* ------------------------------------------- proxies() / proxies_async()
\* A caller enters proxies_async: GET /proxies on the loop, proxies() elsewhere.
CallProxies(t) ==
    /\ pc[t] = "idle"
    /\ Goto(t, "pa72")
    /\ at' = [at EXCEPT ![t] = Snapshot("read", FALSE)]
    /\ cohort' = IF Stale /\ (\A m \in cohort : pc[m] = "pa72")
                 THEN cohort \cup {t} ELSE cohort
    /\ UNCHANGED << settings, request, tester, cpu_executors, alias, mgr, now, all_proxies, ret, proxy_task,
                    validated, fetches, cycles >>

\* line 72: if cls._proxies:
PA72(t) ==
    /\ pc[t] = "pa72"
    /\ Goto(t, IF _proxies # <<>> THEN "pa73" ELSE "pa76")
    /\ at' = [at EXCEPT ![t].found = IF _proxies # <<>> THEN "none" ELSE "stale"]
    /\ UNCHANGED << settings, request, tester, cpu_executors, alias, mgr, now, all_proxies, ret, proxy_task, validated, fetches,
                    cycles, cohort >>

\* line 73: if cls.__proxy_timestamp + cls.__proxy_expiration < datetime.now():
PA73(t) ==
    /\ pc[t] = "pa73"
    /\ Goto(t, IF Expired(proxy_timestamp, now) THEN "pa74" ELSE "pa76")
    /\ at' = [at EXCEPT ![t].found =
                IF Expired(proxy_timestamp, now) THEN "stale" ELSE "fresh"]
    /\ UNCHANGED << settings, request, tester, cpu_executors, alias, mgr, now, all_proxies, ret, proxy_task, validated, fetches,
                    cycles, cohort >>

\* line 74: cls._proxies = []
PA74(t) ==
    /\ pc[t] = "pa74"
    /\ _proxies' = <<>>
    /\ alias' = {}
    /\ validated' = {}
    /\ Goto(t, "pa76")
    /\ UNCHANGED << settings, request, tester, cpu_executors, proxy_timestamp, refresh_count, proxy_expiration, now, all_proxies, ret,
                    proxy_task, fetches, cycles, at, cohort >>

\* A line 76 that fetches for an empty pool only once its timestamp expired.
PA76_FreshWhenRecent(t) ==
    /\ pc[t] = "pa76"
    /\ Goto(t, IF _proxies = <<>> /\ Expired(proxy_timestamp, now) THEN "pa79" ELSE "pa87")
    /\ UNCHANGED << settings, request, tester, cpu_executors, alias, mgr, now, all_proxies, ret, proxy_task, hist >>

\* line 76: if not cls._proxies:
PA76(t) ==
    /\ pc[t] = "pa76"
    /\ Goto(t, IF _proxies = <<>> THEN "pa79" ELSE "pa87")
    /\ UNCHANGED << settings, request, tester, cpu_executors, alias, mgr, now, all_proxies, ret, proxy_task, hist >>

\* line 79 / line 97: all_proxies = cls.__get_proxies(), explored up to cap
\* Fetcher calls.
FetchCapped(t, from, to, cap) ==
    /\ pc[t] = from
    /\ fetches < cap
    /\ \E resp \in Responses :
        /\ all_proxies' = [all_proxies EXCEPT ![t] = get_proxies(resp)]
        /\ at' = [at EXCEPT ![t].fetch = IF resp.ok THEN "ok" ELSE "failed"]
    /\ fetches' = fetches + 1
    /\ Goto(t, to)
    /\ UNCHANGED << settings, request, tester, cpu_executors, alias, mgr, now, ret, proxy_task, validated,
                    cycles, cohort >>

\* line 83 / line 101: cls._proxies = all_proxies  (lines 82 and 100, the call
\* of __test_proxy, are commented out: no candidate is validated)
StorePool(t, from, to) ==
    /\ pc[t] = from
    /\ _proxies' = all_proxies[t]
    /\ alias' = {}
    /\ validated' = {}
    /\ Goto(t, to)
    /\ UNCHANGED << settings, request, tester, cpu_executors, proxy_timestamp, refresh_count, proxy_expiration, now, all_proxies, ret,
                    proxy_task, fetches, cycles, at, cohort >>

\* line 85 / line 103: cls.__proxy_timestamp = datetime.now()
StoreTimestamp(t, from, to) ==
    /\ pc[t] = from
    /\ proxy_timestamp' = now
    /\ cycles' = IF at[t].fetch = "ok" THEN cycles + 1 ELSE cycles
    /\ Goto(t, to)
    /\ UNCHANGED << settings, request, tester, cpu_executors, alias, _proxies, refresh_count, proxy_expiration, now, all_proxies, ret, proxy_task,
                    validated, fetches, at, cohort >>

Fetch(t, from, to) == FetchCapped(t, from, to, MaxFetches)

PA79(t) == Fetch(t, "pa79", "pa83")
PA83(t) == StorePool(t, "pa83", "pa85")
PA85(t) == StoreTimestamp(t, "pa85", "pa87")

\* Only the event loop answers HTTP requests.
Http(t, resp) == IF t = Loop THEN resp ELSE NoResponse

\* routes.get_proxies, lines 53-57: the response built from the returned list.
ProxiesResponse(proxies) ==
    [route |-> "proxies", status |-> 200, success |-> TRUE, data |-> proxies]

\* line 87: return cls._proxies
PA87(t) ==
    /\ pc[t] = "pa87"
    /\ ret' = [ret EXCEPT ![t] = [kind |-> "list", val |-> _proxies,
                                  http |-> Http(t, ProxiesResponse(_proxies))]]
    /\ alias' = IF t = Loop THEN alias ELSE alias \cup {t}
    /\ Goto(t, "done")
    /\ UNCHANGED << settings, request, tester, cpu_executors, mgr, now, all_proxies, proxy_task, hist >>

\* ------------------------------------------------------- refresh_proxies()
\* refresh_proxies called on demand from a caller thread.
CallRefresh(t) ==
    /\ t # Loop
    /\ pc[t] = "idle"
    /\ Goto(t, "rp97")
    /\ at' = [at EXCEPT ![t] = Snapshot("refresh", FALSE)]
    /\ UNCHANGED << settings, request, tester, cpu_executors, alias, mgr, now, all_proxies, ret, proxy_task,
                    validated, fetches, cycles, cohort >>

RP97(t) == Fetch(t, "rp97", "rp101")

\* line 97 again, for call after call of refresh_proxies within one minute.
RateRP97(t) == FetchCapped(t, "rp97", "rp101", MaxRateFetches)
RP101(t) == StorePool(t, "rp101", "rp103")

\* line 103, then the implicit return None; in the refresher task the next
\* statement is main.py line 187, await asyncio.sleep(300).
RP103(t) ==
    /\ pc[t] = "rp103"
    /\ proxy_timestamp' = now
    /\ cycles' = IF at[t].fetch = "ok" THEN cycles + 1 ELSE cycles
    /\ ret' = [ret EXCEPT ![t] = [kind |-> "None", http |-> NoResponse]]
    /\ proxy_task' = IF at[t].sched
                     THEN [proxy_task EXCEPT !.wake = now + SleepMinutes]
                     ELSE proxy_task
    /\ Goto(t, "done")
    /\ UNCHANGED << settings, request, tester, cpu_executors, alias, _proxies, refresh_count, proxy_expiration, now, all_proxies,
                    validated, fetches, at, cohort >>

\* ------------------------------------------------------ get_random_proxy()
CallRandom(t) ==
    /\ pc[t] = "idle"
    /\ Goto(t, "grp258")
    /\ at' = [at EXCEPT ![t] = Issued("random")]
    /\ UNCHANGED << settings, request, tester, cpu_executors, alias, mgr, now, all_proxies, ret, proxy_task,
                    validated, fetches, cycles, cohort >>

\* routes.get_random_proxy, lines 75-97, given what get_random_proxy did.
RandomResponse(r) ==
    IF r.kind = "raise"
    THEN [route |-> "random", status |-> 500, success |-> FALSE, data |-> "None"]
    ELSE IF r.kind = "None" \/ r.val = <<>>
    THEN [route |-> "random", status |-> 200, success |-> FALSE, data |-> "None"]
    ELSE [route |-> "random", status |-> 200, success |-> TRUE, data |-> r.val]

RandomReturn(t, r) ==
    /\ ret' = [ret EXCEPT ![t] = [kind |-> r.kind, val |-> r.val,
                                  http |-> Http(t, RandomResponse(r))]]
    /\ Goto(t, "done")

\* A get_random_proxy that calls the Fetcher when it finds the pool empty.
GRP258_Refreshing(t) ==
    /\ pc[t] = "grp258"
    /\ IF _proxies = <<>>
       THEN /\ fetches' = fetches + 1
            /\ RandomReturn(t, [kind |-> "None", val |-> "None"])
       ELSE Goto(t, "grp260") /\ UNCHANGED << ret, fetches >>
    /\ UNCHANGED << settings, request, tester, cpu_executors, alias, mgr, now, all_proxies, proxy_task,
                    validated, cycles, at, cohort >>

\* lines 258-259: if not cls._proxies: return None
GRP258(t) ==
    /\ pc[t] = "grp258"
    /\ IF _proxies = <<>>
       THEN RandomReturn(t, [kind |-> "None", val |-> "None"])
       ELSE Goto(t, "grp260") /\ UNCHANGED ret
    /\ UNCHANGED << settings, request, tester, cpu_executors, alias, mgr, now, all_proxies, proxy_task, hist >>

\* random.choice(seq): IndexError on an empty sequence, else any element.
choice(seq) ==
    IF seq = <<>> THEN { [kind |-> "raise", val |-> "IndexError"] }
    ELSE { [kind |-> "proxy", val |-> seq[i]] : i \in 1..Len(seq) }

\* line 260: return random.choice(cls._proxies)
GRP260(t) ==
    /\ pc[t] = "grp260"
    /\ \E r \in choice(_proxies) : RandomReturn(t, r)
    /\ UNCHANGED << settings, request, tester, cpu_executors, alias, mgr, now, all_proxies, proxy_task, hist >>

\* --------------------------------------------------------------- get_stats()
CallStats(t) ==
    /\ pc[t] = "idle"
    /\ Goto(t, "gs276")
    /\ at' = [at EXCEPT ![t] = Issued("stats")]
    /\ UNCHANGED << settings, request, tester, cpu_executors, alias, mgr, now, all_proxies, ret, proxy_task,
                    validated, fetches, cycles, cohort >>

\* line 276: "proxy_count": len(cls._proxies)
GS276(t) ==
    /\ pc[t] = "gs276"
    /\ ret' = [ret EXCEPT ![t] = [kind |-> "stats", proxy_count |-> Len(_proxies),
                                  last_refresh |-> <<>>, next_refresh |-> <<>>,
                                  refresh_count |-> 0, http |-> NoResponse]]
    /\ Goto(t, "gs277")
    /\ UNCHANGED << settings, request, tester, cpu_executors, alias, mgr, now, all_proxies, proxy_task, hist >>

\* line 277: "last_refresh": cls.__proxy_timestamp.isoformat() (never None)
GS277(t) ==
    /\ pc[t] = "gs277"
    /\ ret' = [ret EXCEPT ![t].last_refresh = isoformat(proxy_timestamp)]
    /\ Goto(t, "gs278")
    /\ UNCHANGED << settings, request, tester, cpu_executors, alias, mgr, now, all_proxies, proxy_task, hist >>

\* line 278: "next_refresh": cls._get_next_refresh_time()
GS278(t) ==
    /\ pc[t] = "gs278"
    /\ ret' = [ret EXCEPT ![t].next_refresh = get_next_refresh_time(proxy_timestamp)]
    /\ Goto(t, "gs279")
    /\ UNCHANGED << settings, request, tester, cpu_executors, alias, mgr, now, all_proxies, proxy_task, hist >>

\* routes.get_stats, lines 111-115.
StatsResponse(stats) ==
    [route |-> "stats", status |-> 200, success |-> TRUE, data |-> stats]

\* A get_stats that counts itself in __refresh_count as it returns.
GS279_Counting(t) ==
    /\ pc[t] = "gs279"
    /\ LET stats == [ret[t] EXCEPT !.refresh_count = refresh_count] IN
        ret' = [ret EXCEPT ![t] = [stats EXCEPT !.http = Http(t, StatsResponse(stats))]]
    /\ refresh_count' = refresh_count + 1
    /\ Goto(t, "done")
    /\ UNCHANGED << settings, request, tester, cpu_executors, alias, _proxies, proxy_timestamp, proxy_expiration, now,
                    all_proxies, proxy_task, hist >>

\* line 279: "refresh_count": cls.__refresh_count, and the return
GS279(t) ==
    /\ pc[t] = "gs279"
    /\ LET stats == [ret[t] EXCEPT !.refresh_count = refresh_count] IN
        ret' = [ret EXCEPT ![t] = [stats EXCEPT !.http = Http(t, StatsResponse(stats))]]
    /\ Goto(t, "done")
    /\ UNCHANGED << settings, request, tester, cpu_executors, alias, mgr, now, all_proxies, proxy_task, hist >>

\* The caller takes the result; the thread is free for the next call.
Finish(t) ==
    /\ pc[t] = "done"
    /\ Goto(t, "idle")
    /\ ret' = [ret EXCEPT ![t] = NoRet]
    /\ all_proxies' = [all_proxies EXCEPT ![t] = <<>>]
    /\ at' = [at EXCEPT ![t] = NoAt]
    /\ cohort' = IF t \in cohort THEN {} ELSE cohort
    /\ alias' = alias \ {t}
    /\ UNCHANGED << settings, request, tester, cpu_executors, mgr, now, proxy_task, validated, fetches, cycles >>

\* ------------------------------------------------ callers of proxies()
\* A caller thread that was handed a list by proxies() (line 63) empties it
\* in place, list.clear(): every name bound to that list object sees it empty.
CallerMutates(t) ==
    /\ t # Loop
    /\ pc[t] = "done"
    /\ ret[t].kind = "list"
    /\ ret[t].val # <<>>
    /\ ret' = [u \in Threads |->
                IF u = t \/ (t \in alias /\ u \in alias)
                THEN [ret[u] EXCEPT !.val = <<>>] ELSE ret[u]]
    /\ _proxies' = IF t \in alias THEN <<>> ELSE _proxies
    /\ UNCHANGED << settings, request, tester, cpu_executors, proxy_timestamp, refresh_count, proxy_expiration, alias, now,
                    pc, all_proxies, proxy_task, hist >>

\* ------------------------------------------------------ the route handlers
\* Exceptions a core operation can raise into its route handler.
Exceptions == { "IndexError", "RuntimeError" }
Raises == { [kind |-> "raise", val |-> e] : e \in Exceptions }

\* raise HTTPException(500) in a route, answered by main.http_exception_handler.
HttpError(route) ==
    [route |-> route, status |-> 500, success |-> FALSE, data |-> "None"]

\* routes.get_proxies, lines 50-64, given what proxies_async did.
get_proxies_route(o) ==
    IF o.kind = "raise" THEN HttpError("proxies") ELSE ProxiesResponse(o.val)

\* routes.get_stats, lines 107-122, given what ProxyManager.get_stats did.
get_stats_route(o) ==
    IF o.kind = "raise" THEN HttpError("stats") ELSE StatsResponse(o.val)

\* A health check that reports healthy whatever get_stats did.
health_check_Healthy(o) ==
    [route |-> "health", status |-> 200, success |-> TRUE,
     data |-> [status |-> "healthy"]]

\* routes.health_check, lines 133-156, given what ProxyManager.get_stats did.
health_check(o) ==
    IF o.kind = "raise"
    THEN [route |-> "health", status |-> 200, success |-> FALSE,
          data |-> [status |-> "unhealthy", error |-> o.val]]
    ELSE [route |-> "health", status |-> 200, success |-> TRUE,
          data |-> [status |-> "healthy", proxy_count |-> o.val.proxy_count,
                    last_refresh |-> o.val.last_refresh]]

\* ProxyManager.get_stats run without interruption, lines 275-280.
get_stats ==
    [kind |-> "stats",
     val |-> [proxy_count |-> Len(_proxies),
              last_refresh |-> isoformat(proxy_timestamp),
              next_refresh |-> get_next_refresh_time(proxy_timestamp),
              refresh_count |-> refresh_count]]

\* ProxyManager.get_random_proxy run without interruption, lines 258-260.
get_random_proxy ==
    IF _proxies = <<>> THEN { [kind |-> "None", val |-> "None"] }
    ELSE choice(_proxies)

\* One request served on the event loop: the core operation returns o or
\* raises, and the route handler builds the response.
Serve(route, o, response) ==
    /\ pc[Loop] = "idle"
    /\ ret' = [ret EXCEPT ![Loop] = [kind |-> o.kind, val |-> o.val,
                                     http |-> response]]
    /\ at' = [at EXCEPT ![Loop] = Issued(route)]
    /\ Goto(Loop, "done")
    /\ UNCHANGED << settings, request, tester, cpu_executors, alias, mgr, now, all_proxies, proxy_task,
                    validated, fetches, cycles, cohort >>

\* The proxies_async of a Fresh pool, run without interruption.
proxies_async == [kind |-> "list", val |-> _proxies]

ProxiesRoute ==
    \/ Serve("proxies", proxies_async, get_proxies_route(proxies_async))
    \/ \E o \in Raises : Serve("proxies", o, get_proxies_route(o))
RandomRoute ==
    \/ \E o \in get_random_proxy : Serve("random", o, RandomResponse(o))
    \/ \E o \in Raises : Serve("random", o, RandomResponse(o))
StatsRoute ==
    \/ Serve("stats", get_stats, get_stats_route(get_stats))
    \/ \E o \in Raises : Serve("stats", o, get_stats_route(o))
HealthRoute ==
    \/ Serve("health", get_stats, health_check(get_stats))
    \/ \E o \in Raises : Serve("health", o, health_check(o))

\* ------------------------------------------------- the periodic refresher
StartResponse(st) == [route |-> "start-refresh", status |-> 200, body |-> st]

\* A start_refresh that creates a task whether or not one is running.
StartRefresh_Always ==
    /\ pc[Loop] = "idle"
    /\ \E run_time \in RunTimes :
        proxy_task' = [state |-> "running", run_time |-> run_time,
                       start_time |-> now, wake |-> now]
    /\ ret' = [ret EXCEPT ![Loop] = [kind |-> "None",
                   http |-> StartResponse("started")]]
    /\ Goto(Loop, "done")
    /\ at' = [at EXCEPT ![Loop] = Issued("start")]
    /\ UNCHANGED << settings, request, tester, cpu_executors, alias, mgr, now, all_proxies, validated, fetches, cycles, cohort >>

\* main.start_refresh, lines 190-196; the task it creates runs line 177,
\* start_time = loop.time(), when the handler returns.
StartRefreshWith(run_times) ==
    /\ pc[Loop] = "idle"
    /\ \E run_time \in run_times :
        IF proxy_task.state \in {"None", "done"}
        THEN /\ proxy_task' = [state |-> "running", run_time |-> run_time,
                               start_time |-> now, wake |-> now]
             /\ ret' = [ret EXCEPT ![Loop] = [kind |-> "None",
                            http |-> StartResponse("started")]]
        ELSE /\ proxy_task' = proxy_task
             /\ ret' = [ret EXCEPT ![Loop] = [kind |-> "None",
                            http |-> StartResponse("already running")]]
    /\ Goto(Loop, "done")
    /\ at' = [at EXCEPT ![Loop] = Issued("start")]
    /\ UNCHANGED << settings, request, tester, cpu_executors, alias, mgr, now, all_proxies, validated, fetches, cycles, cohort >>

StartRefresh == StartRefreshWith(RunTimes)

\* POST /start-refresh without a run_time: the default of line 190.
StartRefreshDefault == StartRefreshWith({DefaultRunTime})

\* A cap test that never ends the loop.
CapReached_Never(task, clock) == FALSE

\* line 179: the run-time cap, run_time in seconds against a clock in minutes
CapReached(task, clock) == (clock - task.start_time) * 60 > task.run_time

\* lines 179-181: the loop ends
SchedStop ==
    /\ pc[Loop] = "idle"
    /\ proxy_task.state = "running"
    /\ now >= proxy_task.wake
    /\ CapReached(proxy_task, now)
    /\ proxy_task' = [NoTask EXCEPT !.state = "done"]
    /\ UNCHANGED << settings, request, tester, cpu_executors, alias, mgr, now, pc, all_proxies, ret, hist >>

\* lines 182-184: await ProxyManager.refresh_proxies()
SchedRefresh ==
    /\ pc[Loop] = "idle"
    /\ proxy_task.state = "running"
    /\ now >= proxy_task.wake
    /\ ~CapReached(proxy_task, now)
    /\ Goto(Loop, "rp97")
    /\ at' = [at EXCEPT ![Loop] = Snapshot("refresh", TRUE)]
    /\ UNCHANGED << settings, request, tester, cpu_executors, alias, mgr, now, all_proxies, ret, proxy_task,
                    validated, fetches, cycles, cohort >>

\* An exception of a refresh that leaves refresh_proxies_periodically.
RP97Raises_EndsTask(t) ==
    /\ pc[t] = "rp97"
    /\ fetches < MaxFetches
    /\ \E e \in Exceptions :
        ret' = [ret EXCEPT ![t] = [kind |-> "raise", val |-> e, http |-> NoResponse]]
    /\ fetches' = fetches + 1
    /\ proxy_task' = IF at[t].sched THEN [NoTask EXCEPT !.state = "done"] ELSE proxy_task
    /\ Goto(t, "done")
    /\ UNCHANGED << settings, request, tester, cpu_executors, alias, mgr, now, all_proxies, validated,
                    cycles, at, cohort >>

\* line 97 raises an exception that __get_proxies does not catch (it catches
\* RequestException only, lines 150-152): refresh_proxies ends there.  In the
\* refresher task main.py lines 185-186 catch and log it, and line 187 sleeps.
RP97Raises(t) ==
    /\ pc[t] = "rp97"
    /\ fetches < MaxFetches
    /\ \E e \in Exceptions :
        ret' = [ret EXCEPT ![t] = [kind |-> "raise", val |-> e, http |-> NoResponse]]
    /\ fetches' = fetches + 1
    /\ proxy_task' = IF at[t].sched
                     THEN [proxy_task EXCEPT !.wake = now + SleepMinutes]
                     ELSE proxy_task
    /\ Goto(t, "done")
    /\ UNCHANGED << settings, request, tester, cpu_executors, alias, mgr, now, all_proxies, validated,
                    cycles, at, cohort >>

\* main.shutdown, lines 167-173: the handler signals the process and answers;
\* the server then stops and the event loop, on closing, cancels the
\* refresher task where it is suspended, at the sleep of line 187 (the call
\* of refresh_proxies, lines 96-103, has no await at which a cancellation
\* could be delivered).  A handler runs when the loop is free.
ShutdownEnds(loopAt) ==
    /\ pc[Loop] \in loopAt
    /\ proxy_task' = IF proxy_task.state = "running"
                     THEN [NoTask EXCEPT !.state = "cancelled"]
                     ELSE proxy_task
    /\ ret' = [ret EXCEPT ![Loop] = [kind |-> "None",
                   http |-> [route |-> "shutdown", status |-> 200,
                             body |-> "Shutdown signal sent"]]]
    /\ Goto(Loop, "exit")
    /\ at' = [at EXCEPT ![Loop].op = "shutdown"]
    /\ UNCHANGED << settings, request, tester, cpu_executors, alias, mgr, now, all_proxies, validated,
                    fetches, cycles, cohort >>

\* A shutdown that cancels the task wherever its refresh stands.
Shutdown_MidCycle == ShutdownEnds({"idle", "rp97", "rp101", "rp103"})

Shutdown == ShutdownEnds({"idle"})

\* ----------------------------------------------------- the API key check
\* The operations a request can ask for: the four routes of routes.py,
\* POST /start-refresh and POST /shutdown.
Routes == { "proxies", "random", "stats", "health", "start", "shutdown" }

HeaderNames == { "X-API-Key", "Authorization" }

\* "Bearer ", the prefix line 59 looks for, character by character.
Bearer == << "B", "e", "a", "r", "e", "r", " " >>

\* A header the request does not carry: headers.get(name) is None.
Missing == [present |-> FALSE, value |-> << >>]
Header(value) == [present |-> TRUE, value |-> value]

\* The values a header is sent with.
HeaderValues ==
    { Missing, Header(<< >>), Header(<< "k" >>), Header(<< "x" >>),
      Header(Bearer), Header(Bearer \o << "k" >>), Header(Bearer \o << "x" >>),
      Header(<< "b", "e", "a", "r", "e", "r", " ", "k" >>) }

Requests ==
    { [route |-> route, headers |-> headers] :
        route \in Routes, headers \in [HeaderNames -> HeaderValues] }

\* The configurations of config.Settings the service is started with.
Configurations ==
    { [require_api_key |-> require, api_key |-> key] :
        require \in BOOLEAN, key \in { << >>, << "k" >> } }

\* Python's truth value of headers.get(name): None and "" are false.
Truthy(header) == header.present /\ header.value # << >>

\* str.startswith
startswith(str, prefix) ==
    Len(str) >= Len(prefix) /\ SubSeq(str, 1, Len(prefix)) = prefix

\* verify_api_key returned True.
Verified == [raised |-> FALSE, status_code |-> 200, detail |-> "None"]

HTTPException(status_code, detail) ==
    [raised |-> TRUE, status_code |-> status_code, detail |-> detail]

\* A key check that accepts whatever key the request carries.
verify_api_key_AnyKey(headers, config) ==
    IF ~config.require_api_key
    THEN Verified
    ELSE LET api_key == IF Truthy(headers["X-API-Key"])
                        THEN headers["X-API-Key"]
                        ELSE headers["Authorization"]
         IN  IF ~Truthy(api_key)
             THEN HTTPException(401, "API key required")
             ELSE Verified

\* main.verify_api_key, lines 43-66
verify_api_key(headers, config) ==
    IF ~config.require_api_key
    THEN Verified
    ELSE LET api_key == IF Truthy(headers["X-API-Key"])
                        THEN headers["X-API-Key"]
                        ELSE headers["Authorization"]
         IN  IF ~Truthy(api_key)
             THEN HTTPException(401, "API key required")
             ELSE LET key == IF startswith(api_key.value, Bearer)
                             THEN SubSeq(api_key.value, Len(Bearer) + 1,
                                         Len(api_key.value))
                             ELSE api_key.value
                  IN  IF key # config.api_key
                      THEN HTTPException(401, "Invalid API key")
                      ELSE Verified

\* main.py line 76: the app runs verify_api_key before every route, when the
\* configuration requires a key; otherwise it has no dependency to run.
dependencies(headers, config) ==
    IF config.require_api_key THEN verify_api_key(headers, config) ELSE Verified

\* main.http_exception_handler, lines 90-105
http_exception_handler(route, exc) ==
    [route |-> route, status |-> exc.status_code, success |-> FALSE,
     data |-> exc.detail]

\* A request reaches the service.
Arrive ==
    /\ pc[Loop] = "idle"
    /\ request = NoRequest
    /\ request' \in Requests
    /\ UNCHANGED << settings, tester, cpu_executors, alias, mgr, now, pc,
                    all_proxies, ret, proxy_task, hist >>

\* The dependency raised: the request is answered by the exception handler
\* and its route is never called.
Unauthorized ==
    /\ pc[Loop] = "idle"
    /\ request # NoRequest
    /\ LET exc == dependencies(request.headers, settings)
       IN  /\ exc.raised
           /\ ret' = [ret EXCEPT ![Loop] =
                         [kind |-> "raise", val |-> "HTTPException",
                          http |-> http_exception_handler(request.route, exc)]]
    /\ Goto(Loop, "done")
    /\ UNCHANGED << settings, request, tester, cpu_executors, alias, mgr, now,
                    all_proxies, proxy_task, hist >>

\* The dependency returned: the route of the request is called.
Authorized(route) ==
    /\ request.route = route
    /\ ~dependencies(request.headers, settings).raised

AuthProxies == Authorized("proxies") /\ ProxiesRoute
AuthRandom == Authorized("random") /\ RandomRoute
AuthStats == Authorized("stats") /\ StatsRoute
AuthHealth == Authorized("health") /\ HealthRoute
AuthStartRefresh == Authorized("start") /\ StartRefresh
AuthShutdown == Authorized("shutdown") /\ Shutdown

\* The response is sent and the request is over.
Respond ==
    /\ pc[Loop] = "done"
    /\ request # NoRequest
    /\ request' = NoRequest
    /\ Goto(Loop, "idle")
    /\ ret' = [ret EXCEPT ![Loop] = NoRet]
    /\ all_proxies' = [all_proxies EXCEPT ![Loop] = <<>>]
    /\ at' = [at EXCEPT ![Loop] = NoAt]
    /\ cohort' = IF Loop \in cohort THEN {} ELSE cohort
    /\ alias' = alias \ {Loop}
    /\ UNCHANGED << settings, tester, cpu_executors, mgr, now, proxy_task,
                    validated, fetches, cycles >>

\* ------------------------------------------------------- calls of the tester
\* The lists the tester is called on: n candidates, at most one of which
\* makes the validator raise (raising = 0: none).
Inputs ==
    { [proxies |-> [i \in 1..n |-> Candidate(i, raising)],
       executor_ok |-> ok, batch_size |-> size] :
        n \in 0..MaxCandidates, raising \in 0..MaxCandidates,
        ok \in BOOLEAN, size \in BatchSizes }

Tested(o, batches, result) ==
    /\ tester.op = "None"
    /\ tester' = [tester EXCEPT !.op = o, !.batches = batches, !.result = result]
    /\ UNCHANGED << settings, request, cpu_executors, alias, mgr, now, pc, all_proxies, ret, proxy_task, hist >>

\* await cls.__test_proxy(proxies)
TestProxy ==
    LET r == test_proxy(tester.input.proxies, tester.input.executor_ok)
    IN  Tested("test_proxy", r.batches, r.result)

\* await cls._test_proxy_batch(proxies) on a list of at most batch_size.
TestProxyBatch ==
    /\ Len(tester.input.proxies) <= batch_size
    /\ Tested("test_proxy_batch", << tester.input.proxies >>,
              test_proxy_batch(tester.input.proxies, tester.input.executor_ok))

\* cls._test_proxy_sync(proxies)
TestProxySync ==
    Tested("test_proxy_sync", << >>, test_proxy_sync(tester.input.proxies))

\* cls.__test_single_proxy(proxy) on one candidate of the list.
TestSingleProxy ==
    \E i \in 1..Len(tester.input.proxies) :
        Tested("test_single_proxy", << << tester.input.proxies[i] >> >>,
               test_single_proxy(Probe(tester.input.proxies[i].proxy)))

\* -------------------------------------------- validators running at a time
\* ThreadPoolExecutor(max_workers=None), concurrency.py lines 23-25: the
\* library's default number of worker threads, min(32, os.cpu_count() + 4),
\* here on one CPU.
max_workers == 5

NoPool == [queue |-> [t \in Threads |-> 0], running |-> [t \in Threads |-> 0]]
Sum(f) == f[Loop] + (IF NumThreads >= 1 THEN f[1] ELSE 0)
              + (IF NumThreads >= 2 THEN f[2] ELSE 0)
\* Each caller creates at most one pool, when it finds none.
Executors == 1..(NumThreads + 1)
Pools == { e \in Executors : e <= Len(cpu_executors.pools) }

\* The tasks of caller t that some pool still holds.
Outstanding(t) ==
    \E e \in Pools : cpu_executors.pools[e].queue[t] + cpu_executors.pools[e].running[t] > 0

PoolStep(t, to) ==
    /\ Goto(t, to)
    /\ UNCHANGED << settings, request, tester, alias, mgr, now, all_proxies, ret, proxy_task, hist >>

\* A caller, on its own event loop, enters _test_proxy_batch(proxies):
\* lines 195-198 make one run_in_thread task per proxy, line 205 gathers them.
CallTestProxyBatch(t) ==
    /\ pc[t] = "idle"
    /\ \E n \in 1..MaxBatch :
        cpu_executors' = [cpu_executors EXCEPT !.tasks[t] = n]
    /\ PoolStep(t, "tpb205")

\* concurrency.py line 22, in a task of the gather: if self._executor is None
EX22(t) ==
    /\ pc[t] = "tpb205"
    /\ cpu_executors.tasks[t] > 0
    /\ UNCHANGED cpu_executors
    /\ PoolStep(t, IF cpu_executors._executor = 0 THEN "ex23" ELSE "ex26")

\* lines 23-25: self._executor = ThreadPoolExecutor(max_workers=self.max_workers)
EX23(t) ==
    /\ pc[t] = "ex23"
    /\ cpu_executors' = [cpu_executors EXCEPT
            !.pools = Append(@, NoPool),
            !._executor = Len(cpu_executors.pools) + 1]
    /\ PoolStep(t, "ex26")

\* line 26: return self._executor
EX26(t) ==
    /\ pc[t] = "ex26"
    /\ cpu_executors' = [cpu_executors EXCEPT !.executor[t] = cpu_executors._executor]
    /\ PoolStep(t, "ex36")

\* lines 36-39: loop.run_in_executor(self.executor, partial(func, ...)) puts
\* the validation in the queue of the pool it was handed; the task awaits it.
EX36(t) ==
    /\ pc[t] = "ex36"
    /\ cpu_executors' = [cpu_executors EXCEPT
            !.pools[cpu_executors.executor[t]].queue[t] = @ + 1,
            !.tasks[t] = @ - 1]
    /\ PoolStep(t, "tpb205")

\* A worker thread of pool e, of which there are at most max_workers, takes
\* a validation of caller t from the queue and calls __test_single_proxy.
WorkerRuns(e, t) ==
    /\ e \in Pools
    /\ cpu_executors.pools[e].queue[t] > 0
    /\ Sum(cpu_executors.pools[e].running) < max_workers
    /\ cpu_executors' = [cpu_executors EXCEPT
            !.pools[e].queue[t] = @ - 1, !.pools[e].running[t] = @ + 1]
    /\ UNCHANGED << settings, request, tester, alias, mgr, now, pc, all_proxies, ret, proxy_task, hist >>

\* __test_single_proxy returns in its worker thread.
WorkerReturns(e, t) ==
    /\ e \in Pools
    /\ cpu_executors.pools[e].running[t] > 0
    /\ cpu_executors' = [cpu_executors EXCEPT !.pools[e].running[t] = @ - 1]
    /\ UNCHANGED << settings, request, tester, alias, mgr, now, pc, all_proxies, ret, proxy_task, hist >>

\* lines 205-215: the gather is complete, _test_proxy_batch returns.
TPB215(t) ==
    /\ pc[t] = "tpb205"
    /\ cpu_executors.tasks[t] = 0
    /\ ~Outstanding(t)
    /\ UNCHANGED cpu_executors
    /\ PoolStep(t, "idle")

\* A caller enters _test_proxy_sync(proxies), lines 221-225.
CallTestProxySync(t) ==
    /\ pc[t] = "idle"
    /\ \E n \in 1..MaxBatch :
        cpu_executors' = [cpu_executors EXCEPT !.tasks[t] = n]
    /\ PoolStep(t, "tps225")

\* line 227: cls.__test_single_proxy(proxy) is called in the caller's thread.
TPS227(t) ==
    /\ pc[t] = "tps225"
    /\ cpu_executors.tasks[t] > 0
    /\ cpu_executors' = [cpu_executors EXCEPT !.tasks[t] = @ - 1]
    /\ PoolStep(t, "tps227")

\* lines 227-231: the validator returned (or raised); next proxy.
TPS228(t) ==
    /\ pc[t] = "tps227"
    /\ UNCHANGED cpu_executors
    /\ PoolStep(t, "tps225")

\* line 233: return valid_proxies
TPS233(t) ==
    /\ pc[t] = "tps225"
    /\ cpu_executors.tasks[t] = 0
    /\ UNCHANGED cpu_executors
    /\ PoolStep(t, "idle")

\* ------------------------------------------------------------ specification
Next ==
    \/ Tick
    \/ StartRefresh
    \/ SchedStop
    \/ SchedRefresh
    \/ \E t \in Threads :
        \/ CallProxies(t) \/ PA72(t) \/ PA73(t) \/ PA74(t) \/ PA76(t)
        \/ PA79(t) \/ PA83(t) \/ PA85(t) \/ PA87(t)
        \/ CallRefresh(t) \/ RP97(t) \/ RP101(t) \/ RP103(t)
        \/ CallRandom(t) \/ GRP258(t) \/ GRP260(t)
        \/ CallStats(t) \/ GS276(t) \/ GS277(t) \/ GS278(t) \/ GS279(t)
        \/ Finish(t)

Spec == Init /\ [][Next]_vars

SpecZeroWindow == InitZeroWindow /\ [][Next]_vars

\* The service together with callers that change the lists handed to them.
NextCallers == Next \/ \E t \in Threads : CallerMutates(t)

SpecCallers == Init /\ [][NextCallers]_vars

\* Caller threads calling refresh_proxies again and again within one minute
\* of the clock.
NextRate ==
    \E t \in Threads \ {Loop} :
        CallRefresh(t) \/ RateRP97(t) \/ RP101(t) \/ RP103(t) \/ Finish(t)

SpecRate == Init /\ [][NextRate]_vars

\* The route handlers alone, on every pool and timestamp a refresh can leave.
Refreshed ==
    /\ NoCalls
    /\ tester = NoTester
    /\ cpu_executors = CPUExecutors
    /\ now \in Time
    /\ \E resp \in Responses : _proxies = get_proxies(resp)
    /\ proxy_timestamp \in { n \in Time : n <= now }
    /\ refresh_count = 0
    /\ proxy_expiration = ProxyExpiration
    /\ alias = {}

InitRoutes == Refreshed /\ settings = Settings /\ request = NoRequest

NextRoutes ==
    ProxiesRoute \/ RandomRoute \/ StatsRoute \/ HealthRoute \/ Finish(Loop)

SpecRoutes == InitRoutes /\ [][NextRoutes]_vars

\* The refresher task alone on the event loop: POST /start-refresh and the
\* iterations of refresh_proxies_periodically.
LoopRefresh == RP97(Loop) \/ RP101(Loop) \/ RP103(Loop) \/ Finish(Loop)

NextSched == Tick \/ StartRefresh \/ SchedStop \/ SchedRefresh \/ LoopRefresh

\* Time passes, a call on the loop runs to its end, and the event loop runs
\* the refresher task when its sleep is over (ready callbacks run in turn).
SpecSched ==
    /\ Init /\ [][NextSched]_vars
    /\ WF_vars(Tick) /\ WF_vars(LoopRefresh)
    /\ SF_vars(SchedStop) /\ SF_vars(SchedRefresh)

\* The refresher task when a refresh may raise, started with any run_time.
NextRaising == NextSched \/ StartRefreshDefault \/ RP97Raises(Loop)
SpecRaising ==
    /\ Init /\ [][NextRaising]_vars
    /\ WF_vars(Tick) /\ WF_vars(LoopRefresh \/ RP97Raises(Loop))
    /\ SF_vars(SchedStop) /\ SF_vars(SchedRefresh)

\* The refresher task and the shutdown of the service.
NextShutdown == NextSched \/ Shutdown
SpecShutdown == Init /\ [][NextShutdown]_vars

\* The tester called on its own, on every input of Inputs.
\* Requests against the key check, under every configuration.
InitAuth == Refreshed /\ settings \in Configurations /\ request = NoRequest

NextAuth ==
    \/ Arrive \/ Unauthorized \/ Respond
    \/ AuthProxies \/ AuthRandom \/ AuthStats \/ AuthHealth
    \/ AuthStartRefresh \/ AuthShutdown

SpecAuth == InitAuth /\ [][NextAuth]_vars

InitTester ==
    /\ ClassState(ProxyExpiration)
    /\ now = 0
    /\ NoCalls
    /\ cpu_executors = CPUExecutors
    /\ settings = Settings /\ request = NoRequest
    /\ \E input \in Inputs : tester = [NoTester EXCEPT !.input = input]
NextTester == TestProxy \/ TestProxyBatch \/ TestProxySync \/ TestSingleProxy
SpecTester == InitTester /\ [][NextTester]_vars

\* Callers that test batches of proxies at the same time, each from its own
\* thread: the event loop's and those of synchronous callers.
NextPool ==
    \/ \E t \in Threads :
        \/ CallTestProxyBatch(t) \/ EX22(t) \/ EX23(t) \/ EX26(t) \/ EX36(t)
        \/ TPB215(t)
        \/ CallTestProxySync(t) \/ TPS227(t) \/ TPS228(t) \/ TPS233(t)
    \/ \E e \in Executors, t \in Threads : WorkerRuns(e, t) \/ WorkerReturns(e, t)
SpecPool == Init /\ [][NextPool]_vars

\* ==================================================================== claims
IsCycleOp(t) == at[t].op \in {"read", "refresh"}
Returned(t, o) == pc[t] = "done" /\ at[t].op = o
Elems(seq) == { seq[i] : i \in 1..Len(seq) }
CohortFetches == Cardinality({ m \in cohort : at[m].fetch # "no" })
Quiet(t) == \A u \in Threads \ {t} : pc[u] \in {"idle", "done"}

\* C1: every endpoint of the cached pool was passed by the Validator during
\* the refresh cycle that produced the pool.
C1_PoolValidated == \A e \in Elems(_proxies) : e \in validated

\* C2: reads issued together while the pool is Stale cause exactly one
\* Fetcher invocation (stated for reads that made every fetch so far).
C2_OneFetchForCohort ==
    (cohort # {} /\ (\A m \in cohort : pc[m] = "done") /\ fetches = CohortFetches)
        => CohortFetches = 1

\* C3: at most one refresh cycle (fetch, store, timestamp) is in flight.
C3_OneCycleInFlight == Cardinality({ t \in Threads : InCycle(t) }) <= 1

\* C4: a cycle on a populated pool whose fetch failed leaves the pool and
\* the timestamp as they were when the cycle was started.
C4_FailedFetchKeepsPool ==
    \A t \in Threads :
        (pc[t] = "done" /\ IsCycleOp(t) /\ at[t].fetch = "failed" /\ at[t].pool # <<>>)
            => (_proxies = at[t].pool /\ proxy_timestamp = at[t].ts)

\* C5: after a cycle whose fetch returned the candidates C, the pool is
\* exactly the candidates of C the Validator passes, in order.
C5_PoolIsValidSubset ==
    \A t \in Threads :
        (pc[t] = "done" /\ IsCycleOp(t) /\ at[t].fetch = "ok")
            => _proxies = SelectSeq(all_proxies[t], Validates)

C7_NextIsLastPlusWindow ==
    \A t \in Threads :
        Returned(t, "stats")
            => fromisoformat(ret[t].next_refresh)
                 = fromisoformat(ret[t].last_refresh) + ProxyExpiration

\* C8: get_random_proxy never raises, and on the empty signal the route
\* answers 200 with success false and no data.
C8_RandomNeverRaises ==
    \A t \in Threads :
        Returned(t, "random")
            => /\ ret[t].kind # "raise"
               /\ (t = Loop /\ ret[t].kind = "None")
                    => (ret[t].http.status = 200 /\ ~ret[t].http.success
                        /\ ret[t].http.data = "None")

\* C9: a read that finds the pool Stale makes one refresh cycle before it
\* returns and returns the pool that cycle stored.
C9_StaleReadRefreshes ==
    \A t \in Threads :
        (Returned(t, "read") /\ at[t].found = "stale")
            => (at[t].fetch # "no" /\ ret[t].val = all_proxies[t])

\* C10: a read that finds the pool Fresh invokes no Fetcher.
C10_FreshReadNoFetch ==
    \A t \in Threads :
        (Returned(t, "read") /\ at[t].found = "fresh") => at[t].fetch = "no"

\* C11: the expiry test of a read finds the pool Fresh exactly when its age
\* (now - last refresh timestamp) is strictly less than the expiration
\* window; at age = window the read finds it Stale.
C11_FreshIsYoungerThanWindow ==
    [][\A t \in Threads :
        (pc[t] = "pa73" /\ pc'[t] # "pa73" /\ Quiet(t))
            => (at'[t].found = "fresh"
                    <=> now - proxy_timestamp < proxy_expiration)]_vars

C13_FailedFetchServesStale ==
    \A t \in Threads :
        (Returned(t, "read") /\ at[t].found = "stale" /\ at[t].pool # <<>>
            /\ at[t].fetch = "failed")
            => (ret[t].val = at[t].pool
                /\ (t = Loop => ret[t].http.data = at[t].pool))

\* C14: a caller changing the list that a read returned to it leaves the
\* cached pool as it was.
C14_ReturnedListIsCopy ==
    [][\A t \in Threads :
        (pc[t] = "done" /\ pc'[t] = "done" /\ ret'[t] # ret[t])
            => _proxies' = _proxies]_vars

\* C15: a step of a read or refresh changes the cached pool only by storing
\* the result of its cycle; no step leaves an intermediate pool behind.
C15_PoolReplacedAtomically ==
    [][\A t \in Threads :
        (IsCycleOp(t) /\ pc'[t] # pc[t] /\ _proxies' # _proxies)
            => (pc[t] \in {"pa83", "rp101"} /\ _proxies' = all_proxies[t])]_vars

\* C16: no step of get_random_proxy calls the Fetcher or the Validator or
\* changes the pool, the timestamp or the refresh counter, whatever the
\* state of the pool.
C16_RandomNeverRefreshes ==
    [][\A t \in Threads :
        (pc[t] \in {"grp258", "grp260"} /\ pc'[t] # pc[t])
            => UNCHANGED << _proxies, proxy_timestamp, refresh_count,
                            fetches, validated, cycles >>]_vars

\* A get_random_proxy has returned while the pool is populated and expired.
C16_RandomOnExpiredPool ==
    \E t \in Threads :
        /\ Returned(t, "random")
        /\ _proxies # <<>>
        /\ Expired(proxy_timestamp, now)
        /\ at[t].fetch = "no"

\* C17: no step of get_stats calls the Fetcher or changes the pool, the
\* timestamp or the refresh counter; the proxy_count it reports is the size
\* of the pool when line 276 reads it and the refresh_count it reports is
\* the counter when line 279 reads it.
C17_StatsPureRead ==
    [][\A t \in Threads :
        (pc[t] \in {"gs276", "gs277", "gs278", "gs279"} /\ pc'[t] # pc[t])
            => /\ UNCHANGED << _proxies, proxy_timestamp, refresh_count,
                               fetches, validated, cycles >>
               /\ pc[t] = "gs276" => ret'[t].proxy_count = Len(_proxies)
               /\ pc[t] # "gs276" => ret'[t].proxy_count = ret[t].proxy_count
               /\ pc[t] = "gs279" => ret'[t].refresh_count = refresh_count]_vars

\* A get_stats has returned the size of a populated pool.
C17_StatsOfPopulatedPool ==
    \E t \in Threads :
        /\ Returned(t, "stats")
        /\ _proxies # <<>>
        /\ ret[t].proxy_count = Len(_proxies)
        /\ ret[t].refresh_count = refresh_count

\* C18: before any refresh cycle has run the pool is empty, the refresh
\* counter is 0 and the last-refresh timestamp is unset: it holds no clock
\* reading.
C18_StartsUnset ==
    fetches = 0
        => (_proxies = <<>> /\ refresh_count = 0 /\ proxy_timestamp \notin Time)

\* C19: a read or refresh issued while another caller's refresh cycle is in
\* flight makes no Fetcher call of its own.
C19_SecondCallerJoins ==
    \A t \in Threads :
        (pc[t] = "done" /\ IsCycleOp(t) /\ at[t].inflight) => at[t].fetch = "no"

\* C20: a call of refresh_proxies that starts when more refreshes than the
\* per-minute maximum have already run in the current minute returns at once
\* without a fetch and leaves the pool and the timestamp unchanged.
C20_RateLimitRejects ==
    [][\A t \in Threads :
        (pc[t] = "rp97" /\ pc'[t] # "rp97" /\ fetches > MaxRefreshPerMinute)
            => (pc'[t] = "done" /\ fetches' = fetches
                /\ UNCHANGED << _proxies, proxy_timestamp >>)]_vars

\* C21: a fetch whose primary source failed returns the candidates of the
\* fallback (JSON) source; a fetch whose primary source answered returns
\* the primary source's candidates.
C21_FallbackOnFailure ==
    [][\A t \in Threads :
        (pc[t] \in {"pa79", "rp97"} /\ pc'[t] # pc[t])
            => /\ at'[t].fetch = "failed"
                    => all_proxies'[t] = get_proxies_2(FallbackResponse).val
               /\ at'[t].fetch = "ok"
                    => \E b \in Bodies : all_proxies'[t] = split(b)]_vars

\* C22: POST /start-refresh while a scheduler task is running answers
\* 'already running' and leaves the task as it is; with no task, or a
\* finished one, it creates a task that starts now and answers 'started'.
C22_OneSchedulerTask ==
    [][(pc[Loop] = "idle" /\ at'[Loop].op = "start")
        => IF proxy_task.state = "running"
           THEN /\ proxy_task' = proxy_task
                /\ ret'[Loop].http.body = "already running"
           ELSE /\ proxy_task'.state = "running"
                /\ proxy_task'.start_time = now
                /\ ret'[Loop].http.body = "started"]_vars

\* POST /start-refresh has answered 'already running' to a call made while
\* the task of an earlier call was running.
C22_SecondStartRefused ==
    /\ pc[Loop] = "done"
    /\ at[Loop].op = "start"
    /\ ret[Loop].http.body = "already running"
    /\ proxy_task.state = "running"

\* Seconds since the refresher task was started.
Elapsed(task, clock) == (clock - task.start_time) * 60
\* The task sleeps or is ready, some clock reading is left at which it can
\* wake, and every such reading is past its cap.
DueToStop(task) ==
    /\ task.state = "running"
    /\ pc[Loop] \in {"idle", "done"}
    /\ \E n \in Time : n >= task.wake /\ n >= now
    /\ \A k \in Time : (k >= task.wake /\ k >= now) => Elapsed(task, k) > task.run_time

\* C23: the refresher task starts a refresh only while it is running and no
\* more than run_time seconds have elapsed since its start; each refresh is
\* followed by a sleep of five minutes; and a task whose wake-ups are all
\* past its cap ends.
C23_SchedulerTerminates ==
    /\ [][(pc[Loop] = "idle" /\ pc'[Loop] = "rp97")
            => (proxy_task.state = "running"
                /\ Elapsed(proxy_task, now) <= proxy_task.run_time)]_vars
    /\ [][(pc[Loop] = "rp103" /\ pc'[Loop] = "done")
            => proxy_task'.wake = now + SleepMinutes]_vars
    /\ DueToStop(proxy_task) ~> (proxy_task.state = "done")

\* The refresher task has refreshed and then ended at its cap.
C23_TaskEndedAfterRefresh ==
    proxy_task.state = "done" /\ cycles > 0 /\ pc[Loop] = "idle"

\* C24: after its core operation raised, GET /proxies, GET /proxy/random and
\* GET /stats answer 500 with success false, and GET /health answers 200
\* with success false and status 'unhealthy'.
C24_RaiseMappedPerEndpoint ==
    (pc[Loop] = "done" /\ ret[Loop].kind = "raise")
        => IF at[Loop].op = "health"
           THEN /\ ret[Loop].http.status = 200
                /\ ~ret[Loop].http.success
                /\ ret[Loop].http.data.status = "unhealthy"
           ELSE /\ ret[Loop].http.status = 500
                /\ ~ret[Loop].http.success

\* GET /health has been answered after get_stats raised.
C24_HealthAfterRaise ==
    pc[Loop] = "done" /\ at[Loop].op = "health" /\ ret[Loop].kind = "raise"

\* The candidates of a list the validator passes, as a set of positions.
Passing(proxies) ==
    { i \in 1..Len(proxies) : ~proxies[i].raises /\ Validates(proxies[i].proxy) }

\* The k-th smallest member of a set of positions.
Nth(S, k) == CHOOSE x \in S : Cardinality({ y \in S : y < x }) = k - 1

\* The positions whose validator call was made by the executor and returned
\* true (an executor that accepts no task calls no validator).
ReturnedTrue(input) == IF input.executor_ok THEN Passing(input.proxies) ELSE {}

\* C25: _test_proxy_batch returns exactly the candidates of the batch for
\* which the validator returned true, in input order: none whose validation
\* returned false or raised, and every one whose validation returned true.
C25_BatchKeepsExactlyPassing ==
    tester.op = "test_proxy_batch"
        => LET proxies == tester.input.proxies
               result == tester.result
               passed == ReturnedTrue(tester.input)
           IN  /\ Len(result) = Cardinality(passed)
               /\ \A k \in 1..Len(result) : result[k] = proxies[Nth(passed, k)].proxy
C25_BatchWithMixedVerdicts ==
    /\ tester.op = "test_proxy_batch"
    /\ tester.input.executor_ok
    /\ Len(tester.result) >= 2
    /\ \E i, j, k \in 1..Len(tester.input.proxies) :
        /\ i \in Passing(tester.input.proxies)
        /\ tester.input.proxies[j].raises
        /\ ~tester.input.proxies[k].raises
        /\ ~Validates(tester.input.proxies[k].proxy)

\* The positions of a list whose validator call raises.
Raising(proxies) == { i \in 1..Len(proxies) : proxies[i].raises }

\* C26: a validator exception for one candidate neither aborts the batch nor
\* removes another candidate: _test_proxy_batch (its executor working) and
\* _test_proxy_sync still return every other candidate whose validation
\* returned true, each once and in input order.
C26_ExceptionIsolated ==
    (/\ tester.op \in {"test_proxy_batch", "test_proxy_sync"}
     /\ tester.op = "test_proxy_batch" => tester.input.executor_ok
     /\ Raising(tester.input.proxies) # {})
        => LET proxies == tester.input.proxies
               result == tester.result
               others == Passing(proxies) \ Raising(proxies)
           IN  /\ Len(result) = Cardinality(others)
               /\ \A k \in 1..Len(result) : result[k] = proxies[Nth(others, k)].proxy
C26_PassingAfterRaising ==
    /\ tester.op = "test_proxy_batch"
    /\ tester.input.executor_ok
    /\ \E r \in Raising(tester.input.proxies) :
        /\ \E i \in Passing(tester.input.proxies) : i < r
        /\ \E i \in Passing(tester.input.proxies) :
            i > r /\ tester.result[Len(tester.result)] = tester.input.proxies[i].proxy

\* The concatenation of a sequence of sequences.
RECURSIVE Concat(_)
Concat(seqs) == IF seqs = << >> THEN << >> ELSE Head(seqs) \o Concat(Tail(seqs))

\* C27: __test_proxy splits its n candidates into consecutive chunks of at
\* most settings.batch_size, calls the batch tester ceil(n / batch_size)
\* times, puts every candidate in exactly one chunk and returns the
\* concatenation of the chunks' results.
C27_ChunksOfConfiguredSize ==
    tester.op = "test_proxy"
        => LET proxies == tester.input.proxies
               size == tester.input.batch_size
               calls == tester.batches
           IN  /\ Len(calls) = (Len(proxies) + size - 1) \div size
               /\ \A k \in 1..Len(calls) : Len(calls[k]) <= size
               /\ Concat(calls) = proxies
               /\ tester.result
                    = Concat([k \in 1..Len(calls) |->
                                test_proxy_batch(calls[k], tester.input.executor_ok)])

\* C29: when the concurrent path fails (the executor accepts no task),
\* __test_proxy falls back to validating the whole list sequentially, so its
\* result is still the candidates the validator passes, in order; a failed
\* chunk is not reported as having no valid candidate.
C29_FallbackOnExecutorFailure ==
    (tester.op = "test_proxy" /\ ~tester.input.executor_ok)
        => LET proxies == tester.input.proxies
               result == tester.result
           IN  /\ Len(result) = Cardinality(Passing(proxies))
               /\ \A k \in 1..Len(result) :
                    result[k] = proxies[Nth(Passing(proxies), k)].proxy

\* C30: the validator returns true only if the request through the proxy
\* completes within the timeout with status 200; a network error, a timeout
\* or another status yields false, and the call always returns a verdict.
C30_ValidatorVerdict ==
    tester.op = "test_single_proxy"
        => LET probe == Probe(tester.batches[1][1].proxy)
           IN  /\ tester.result \in BOOLEAN
               /\ tester.result <=> (~probe.raised /\ probe.status_code = 200)
               /\ probe.raised => ~tester.result
               /\ (~probe.raised /\ probe.status_code # 200) => ~tester.result
C30_RefusedOtherStatus ==
    /\ tester.op = "test_single_proxy"
    /\ ~Probe(tester.batches[1][1].proxy).raised
    /\ Probe(tester.batches[1][1].proxy).status_code = 404
    /\ tester.result = FALSE

\* The calls of __test_single_proxy in progress: in the workers of every
\* pool, and in the threads of the callers of _test_proxy_sync.
Validating ==
    LET inPool(e) == Sum(cpu_executors.pools[e].running)
        rest[e \in 0..Len(cpu_executors.pools)] ==
            IF e = 0 THEN 0 ELSE inPool(e) + rest[e - 1]
    IN  rest[Len(cpu_executors.pools)]
        + Cardinality({ t \in Threads : pc[t] = "tps227" })

\* C28: at no time do more validator calls run at once, over all chunks, all
\* callers testing at the same time and the sequential path, than the
\* concurrency limit (in this code the size of the thread pool of
\* cls.__cpu_executors, its only bound on concurrent validations).
C28_ValidatorsWithinLimit == Validating <= max_workers

\* The lines of a body that are not blank, in order.
NonBlank(lines) == SelectSeq(lines, LAMBDA line : line # << >>)

\* C31: a successful fetch returns the lines of the response body with the
\* blank ones discarded: no candidate is the empty string (also for a body
\* that ends with a newline) and every non-blank line is returned.
C31_BlankLinesDiscarded ==
    [][\A t \in Threads :
        (pc[t] \in {"pa79", "rp97"} /\ pc'[t] # pc[t] /\ at'[t].fetch = "ok")
            => /\ \A i \in 1..Len(all_proxies'[t]) : all_proxies'[t][i] # << >>
               /\ \E b \in Bodies : all_proxies'[t] = NonBlank(split(b))]_vars

\* C32: a failed fetch ends in an error its caller can tell from a fetch
\* that found no candidate: the refresh cycle is never handed a failed fetch
\* as a list of candidates to store.
C32_FailedFetchIsAnError ==
    \A t \in Threads :
        ~(pc[t] \in {"pa83", "rp101"} /\ at[t].fetch = "failed")

\* C33: stopping or cancelling the refresher task does not tear a refresh in
\* flight: the task ends only while no scheduled refresh stands between its
\* fetch and its timestamp, and its end writes neither the pool nor the
\* timestamp, so both are from before a cycle or both from its result.
C33_CancelKeepsCycleWhole ==
    [][(proxy_task.state = "running" /\ proxy_task'.state \in {"cancelled", "done"})
        => /\ pc[Loop] \notin {"rp97", "rp101", "rp103"}
           /\ _proxies' = _proxies
           /\ proxy_timestamp' = proxy_timestamp]_vars
C33_CancelledAfterRefresh ==
    /\ proxy_task.state = "cancelled"
    /\ cycles > 0
    /\ _proxies # << >>

\* C34: a read that finds the pool empty performs a fetch however recent the
\* timestamp is: an empty pool is never Fresh, the test of line 76 on an
\* empty pool leads to the Fetcher call of line 79, and that call is one more
\* Fetcher invocation, so k reads of a pool that stays empty make k fetches.
C34_EmptyPoolAlwaysFetches ==
    /\ [][\A t \in Threads :
            (pc[t] = "pa72" /\ pc'[t] # "pa72" /\ _proxies = << >>)
                => (pc'[t] = "pa76" /\ at'[t].found = "stale")]_vars
    /\ [][\A t \in Threads :
            (pc[t] = "pa76" /\ pc'[t] # "pa76" /\ _proxies = << >>)
                => pc'[t] = "pa79"]_vars
    /\ [][\A t \in Threads :
            (pc[t] = "pa79" /\ pc'[t] # "pa79")
                => (fetches' = fetches + 1 /\ at'[t].fetch # "no")]_vars
C34_SecondReadFetchedAgain ==
    \E t \in Threads :
        /\ Returned(t, "read")
        /\ at[t].pool = << >>
        /\ at[t].fetch = "failed"
        /\ fetches = 2
        /\ proxy_timestamp = now
        /\ _proxies = << >>
        /\ Quiet(t)

\* The refresher sleeps after a refresh that raised, with a wake-up ahead
\* and no clock reading ahead at which the cap is exceeded.
RetryDue(task) ==
    /\ task.state = "running"
    /\ pc[Loop] = "done" /\ at[Loop].sched /\ ret[Loop].kind = "raise"
    /\ \E n \in Time : n >= task.wake
    /\ \A k \in Time : k >= now => ~CapReached(task, k)

\* C35: an exception raised by a scheduled refresh does not end the
\* refresher: the loop catches it, sleeps the refresh interval and, the
\* run-time cap not being exceeded, attempts the next refresh.
C35_RaiseDoesNotEndLoop ==
    /\ [][(pc[Loop] = "rp97" /\ at[Loop].sched /\ ret'[Loop].kind = "raise")
            => /\ proxy_task'.state = "running"
               /\ proxy_task'.wake = now + SleepMinutes
               /\ proxy_task'.run_time = proxy_task.run_time
               /\ proxy_task'.start_time = proxy_task.start_time]_vars
    /\ RetryDue(proxy_task) ~> (pc[Loop] = "rp97" /\ at[Loop].sched)
C35_SleepingAfterRaise ==
    /\ RetryDue(proxy_task)
    /\ proxy_task.wake = now + SleepMinutes

\* The key a request presents: X-API-Key when it is sent with a value,
\* otherwise Authorization.
Presented(headers) ==
    IF headers["X-API-Key"].present /\ headers["X-API-Key"].value # << >>
    THEN headers["X-API-Key"]
    ELSE headers["Authorization"]

\* A header value without its optional "Bearer " prefix.
Stripped(value) ==
    IF Len(value) >= 7 /\ SubSeq(value, 1, 7) = Bearer
    THEN SubSeq(value, 8, Len(value))
    ELSE value

\* The request carries no key, or a key other than the configured one.
BadKey(headers, key) ==
    \/ ~Presented(headers).present
    \/ Stripped(Presented(headers).value) # key

\* C36: with the key requirement enabled, a request whose key is missing or,
\* "Bearer " stripped, differs from the configured key is answered 401 and
\* none of the operations is invoked for it: the pool, the timestamp, the
\* counter and the scheduler task stay as they were.  With the requirement
\* disabled every request reaches the operation it asks for.
C36_KeyGuardsEveryOperation ==
    [][(request # NoRequest /\ pc[Loop] = "idle" /\ pc'[Loop] # "idle")
        => /\ (settings.require_api_key /\ BadKey(request.headers, settings.api_key))
                => /\ ret'[Loop].http.status = 401
                   /\ at'[Loop].op = "none"
                   /\ mgr' = mgr
                   /\ proxy_task' = proxy_task
                   /\ pc'[Loop] = "done"
           /\ ~settings.require_api_key
                => /\ at'[Loop].op = request.route
                   /\ ret'[Loop].http.status # 401]_vars

\* A shutdown request with the wrong bearer key was answered 401 while a
\* scheduler task could have been started.
C36_WrongKeyRefused ==
    /\ settings.require_api_key
    /\ settings.api_key = << "k" >>
    /\ request.route = "shutdown"
    /\ request.headers["Authorization"] = Header(Bearer \o << "x" >>)
    /\ ~request.headers["X-API-Key"].present
    /\ pc[Loop] = "done"
    /\ ret[Loop].http.status = 401
    /\ at[Loop].op = "none"

====
